---- MODULE Spec2Model ----
(***************************************************************************)
(* Model of the KNMI acquisition-and-merge pipeline (src/src/knmi.py):     *)
(* download_files, merge_nc_files and the KNMIApp query object.            *)
(*                                                                         *)
(* File names are sequences of character codes, so that sorted(), the      *)
(* trailing-12-characters rule of filename_to_date and the server's        *)
(* startAfterFilename comparison are the string operations of the code.    *)
(***************************************************************************)
EXTENDS Integers, Sequences, FiniteSets

\* ------------------------------------------------------------------ bounds
\* Number of 10-minute slots (remote file timestamps) in the universe.
MaxTime == 4
\* Largest max_downloads passed to download_files.
MaxQuota == 3
\* Largest number of files in the out-of-band seed of the downloads folder.
MaxSeed == 2
\* Number of stations in a raw file.
MaxStation == 1
\* Largest number of full batches of raw files in the downloads folder.
MaxBatches == 2
\* Raw file counts run from one below to MaxRemainder above each multiple.
MaxRemainder == 1
\* Largest number of merge passes in a row.
MaxRuns == 2
\* Number of time stamps in the store a KNMIApp loads.
MaxStamp == 2

\* ---------------------------------------------------------------- strings
Min(a, b) == IF a <= b THEN a ELSE b
Max(a, b) == IF a >= b THEN a ELSE b

\* Python's str ordering from position i on: code point by code point, a
\* proper prefix first.
RECURSIVE StrLessFrom(_, _, _)
StrLessFrom(a, b, i) ==
    IF i > Len(a) THEN i <= Len(b)
    ELSE IF i > Len(b) THEN FALSE
    ELSE IF a[i] = b[i] THEN StrLessFrom(a, b, i + 1)
    ELSE a[i] < b[i]

StrLess(a, b) == StrLessFrom(a, b, 1)

\* sorted(S) for a set of strings.
Sorted(S) ==
    LET rank == [x \in S |-> Cardinality({y \in S : StrLess(y, x)})]
    IN  [i \in 1..Cardinality(S) |-> CHOOSE x \in S : rank[x] = i - 1]

\* "KMDS__OPER_P___10M_OBS_L2_"
file_head ==
    <<75, 77, 68, 83, 95, 95, 79, 80, 69, 82, 95, 80, 95, 95, 95,
      49, 48, 77, 95, 79, 66, 83, 95, 76, 50, 95>>

\* ".nc"
nc_suffix == <<46, 110, 99>>

\* A prefix a hand-seeded file may carry instead of file_head: "Z_".
other_head == <<90, 95>>

\* Path.stem of a name ending in ".nc".
Stem(name) == SubSeq(name, 1, Len(name) - Len(nc_suffix))

\* glob("*.nc"): the names of the folder that end in ".nc".
GlobNc(folder) ==
    {n \in folder : /\ Len(n) >= Len(nc_suffix)
                    /\ SubSeq(n, Len(n) - Len(nc_suffix) + 1, Len(n)) = nc_suffix}

\* int() of a string of decimal digits.
RECURSIVE Num(_)
Num(ds) ==
    IF ds = <<>> THEN 0
    ELSE 10 * Num(SubSeq(ds, 1, Len(ds) - 1)) + (ds[Len(ds)] - 48)

IsDigits(ds) == \A i \in 1..Len(ds) : ds[i] \in 48..57

\* n as w zero-padded decimal digits (strftime's %Y %m %d %H %M fields).
RECURSIVE Pad(_, _)
Pad(n, w) ==
    IF w = 0 THEN <<>> ELSE Append(Pad(n \div 10, w - 1), 48 + (n % 10))

\* filename[-12:], then the five fields pd.to_datetime parses; the empty
\* tuple stands for the ValueError raised when the text is no date.
filename_to_date(filename) ==
    LET full_date == SubSeq(filename, Max(1, Len(filename) - 11), Len(filename))
        year   == SubSeq(full_date, 1, 4)
        month  == SubSeq(full_date, 5, 6)
        day    == SubSeq(full_date, 7, 8)
        hour   == SubSeq(full_date, 9, 10)
        minute == SubSeq(full_date, 11, 12)
    IN  IF /\ Len(full_date) = 12
           /\ IsDigits(full_date)
           /\ Num(month) \in 1..12
           /\ Num(day) \in 1..31
           /\ Num(hour) \in 0..23
           /\ Num(minute) \in 0..59
        THEN <<Num(year), Num(month), Num(day), Num(hour), Num(minute)>>
        ELSE <<>>

\* max_date.strftime('%Y%m%d%H%M')
Strftime(ts) ==
    Pad(ts[1], 4) \o Pad(ts[2], 2) \o Pad(ts[3], 2) \o Pad(ts[4], 2) \o Pad(ts[5], 2)

\* Order of timestamps.
DateLess(a, b) ==
    \E i \in 1..5 : (\A j \in 1..(i - 1) : a[j] = b[j]) /\ a[i] < b[i]

DateLeq(a, b) == a = b \/ DateLess(a, b)

\* ------------------------------------------------------------- the universe
\* The k-th 10-minute slot, counted from 2023-12-31 23:50, as a timestamp.
SlotDate(k) ==
    LET total == 1430 + 10 * (k - 1)
    IN  IF total < 1440
        THEN <<2023, 12, 31, total \div 60, total % 60>>
        ELSE <<2024, 1, 1 + ((total - 1440) \div 1440),
               ((total - 1440) % 1440) \div 60, (total - 1440) % 60>>

\* The remote file of slot k: file_head + YYYYMMDDHHMM + ".nc".
RemoteName(k) == file_head \o Strftime(SlotDate(k)) \o nc_suffix

\* A hand-seeded file of slot k under another prefix.
OtherName(k) == other_head \o Strftime(SlotDate(k)) \o nc_suffix

RemoteNames == {RemoteName(k) : k \in 1..MaxTime}
OtherNames == {OtherName(k) : k \in 1..MaxTime}


\* -------------------------------------------------------------------- state
VARIABLES
    \* download_files: the downloads folder (name -> "empty" | "full"), the
    \* names the server holds, and the locals of the running call
    raw, server, pc, files_list, maximum_quota, max_number_files, file_number,
    max_date, result,
    \* history of the running call and of the call before it
    prev_max_date, folder_at_start, requested, written, skipped, quota_hit,
    \* merge_nc_files: the sorted raw files are 1..n_raw, those in unreadable
    \* cannot be opened; store is the canonical store file ("absent", "partial"
    \* or a dataset); then the locals of the running call
    n_raw, unreadable, store, m_pc, ii, data_sets, merged_batch, data_set_merging,
    merged_downloaded_files, merge_data_sets,
    \* history: the store when the running call began, the calls begun
    store_before, runs,
    \* KNMIApp: the loaded dataset ("None" when load_data returned None), the
    \* attributes variable_info and station_info ("unset" until first assigned)
    \* and the outcome of the last method call
    app_ds, variable_info, station_info, q_result

dlVars ==
    <<raw, server, pc, files_list, maximum_quota, max_number_files, file_number,
      max_date, result,
      prev_max_date, folder_at_start, requested, written, skipped, quota_hit>>

mgVars ==
    <<n_raw, unreadable, store, m_pc, ii, data_sets, merged_batch, data_set_merging,
      merged_downloaded_files, merge_data_sets, store_before, runs>>

qVars == <<app_ds, variable_info, station_info, q_result>>

vars == <<dlVars, mgVars, qVars>>

\* The HTTP status codes of the URL request the code tells apart: 200, 403
\* and any other (500 stands for it).
StatusCodes == {200, 403, 500}

\* ----------------------------------------------------------- download_files
\* The folder with name n (re)written with body b.
WithFile(folder, n, b) ==
    [m \in DOMAIN folder \cup {n} |-> IF m = n THEN b ELSE folder[m]]

\* The server's answer to the listing request: the names after
\* startAfterFilename, in order, at most maxKeys of them.
max_keys == 1000

ListFiles(start_after_filename) ==
    LET after == Sorted({n \in server : StrLess(start_after_filename, n)})
    IN  SubSeq(after, 1, Min(Len(after), max_keys))

\* sorted(folder.glob("*.nc"))[-1].stem
LastFile(folder) ==
    LET names == Sorted(GlobNc(folder)) IN Stem(names[Len(names)])

StartAfterFilename(date) == file_head \o Strftime(date) \o nc_suffix

\* A quota cap that ignores max_downloads.
QuotaCapUncapped(quota, available) == available

\* max_number_files
QuotaCap(quota, available) ==
    IF quota >= available THEN available ELSE quota

\* A status branch that treats 403 like any other failure.
OnStatusNoBreak(code) == IF code = 200 THEN "write" ELSE "skip"

\* What the loop body does with a status code.
OnStatus(code) ==
    IF code = 200 THEN "write" ELSE IF code = 403 THEN "break" ELSE "skip"

\* The call up to the loop, with max_downloads any q: cursor, listing, quota.
StartCall ==
    /\ UNCHANGED <<mgVars, qVars>>
    /\ pc = "idle"
    /\ IF GlobNc(DOMAIN raw) = {}
       THEN /\ result' = "IndexError"
            /\ UNCHANGED <<raw, server, pc, files_list, maximum_quota,
                           max_number_files, file_number, max_date, prev_max_date,
                           folder_at_start, requested, written, skipped, quota_hit>>
       ELSE LET date == filename_to_date(LastFile(DOMAIN raw)) IN
            IF date = <<>>
            THEN /\ result' = "ValueError"
                 /\ UNCHANGED <<raw, server, pc, files_list, maximum_quota,
                                max_number_files, file_number, max_date, prev_max_date,
                                folder_at_start, requested, written, skipped, quota_hit>>
            ELSE /\ max_date' = date
                 /\ prev_max_date' = max_date
                 /\ files_list' = ListFiles(StartAfterFilename(date))
                 /\ \E q \in 0..MaxQuota :
                       /\ maximum_quota' = q
                       /\ max_number_files' = QuotaCap(q, Len(files_list'))
                 /\ file_number' = 0
                 /\ folder_at_start' = DOMAIN raw
                 /\ requested' = <<>>
                 /\ written' = {}
                 /\ skipped' = {}
                 /\ quota_hit' = <<>>
                 /\ result' = "running"
                 /\ pc' = "loop"
                 /\ UNCHANGED <<raw, server>>

\* One URL request of the loop; on 200 the target file is opened for writing.
RequestUrl(code) ==
    /\ UNCHANGED <<mgVars, qVars>>
    /\ pc = "loop"
    /\ file_number < max_number_files
    /\ LET name == files_list[file_number + 1]
           todo == OnStatus(code)
       IN  /\ requested' = Append(requested, name)
           /\ IF todo = "write"
              THEN /\ raw' = WithFile(raw, name, "empty")
                   /\ pc' = "write"
                   /\ UNCHANGED <<file_number, skipped>>
              ELSE IF todo = "break"
              THEN /\ pc' = "break"
                   /\ UNCHANGED <<raw, file_number, skipped>>
              ELSE /\ skipped' = skipped \cup {name}
                   /\ file_number' = file_number + 1
                   /\ UNCHANGED <<raw, pc>>
           /\ quota_hit' = IF code = 403 THEN name ELSE quota_hit
    /\ UNCHANGED <<server, files_list, maximum_quota, max_number_files, max_date,
                   result, prev_max_date, folder_at_start, written>>

\* The body is fetched from the temporary URL and written; the file is closed.
WriteBody ==
    /\ UNCHANGED <<mgVars, qVars>>
    /\ pc = "write"
    /\ LET name == files_list[file_number + 1]
       IN  /\ raw' = WithFile(raw, name, "full")
           /\ written' = written \cup {name}
    /\ file_number' = file_number + 1
    /\ pc' = "loop"
    /\ UNCHANGED <<server, files_list, maximum_quota, max_number_files, max_date,
                   result, prev_max_date, folder_at_start, requested, skipped,
                   quota_hit>>

\* The loop is over (exhausted or broken out of): return 0.
EndCall ==
    /\ UNCHANGED <<mgVars, qVars>>
    /\ \/ pc = "loop" /\ file_number = max_number_files
       \/ pc = "break"
    /\ result' = "returned"
    /\ pc' = "idle"
    /\ UNCHANGED <<raw, server, files_list, maximum_quota, max_number_files,
                   file_number, max_date, prev_max_date, folder_at_start,
                   requested, written, skipped, quota_hit>>

\* The server publishes the file of the next slot.
Publish ==
    /\ UNCHANGED <<mgVars, qVars>>
    /\ pc = "idle"
    /\ Cardinality(server) < MaxTime
    /\ server' = server \cup {RemoteName(Cardinality(server) + 1)}
    /\ UNCHANGED <<raw, pc, files_list, maximum_quota, max_number_files,
                   file_number, max_date, result, prev_max_date, folder_at_start,
                   requested, written, skipped, quota_hit>>

\* The process is killed inside a call.
Terminate ==
    /\ UNCHANGED <<mgVars, qVars>>
    /\ pc \in {"loop", "write", "break"}
    /\ pc' = "terminated"
    /\ result' = "killed"
    /\ UNCHANGED <<raw, server, files_list, maximum_quota, max_number_files,
                   file_number, max_date, prev_max_date, folder_at_start,
                   requested, written, skipped, quota_hit>>

\* The poller is started again.
Restart ==
    /\ UNCHANGED <<mgVars, qVars>>
    /\ pc = "terminated"
    /\ pc' = "idle"
    /\ UNCHANGED <<raw, server, files_list, maximum_quota, max_number_files,
                   file_number, max_date, result, prev_max_date, folder_at_start,
                   requested, written, skipped, quota_hit>>


\* ----------------------------------------------------------- merge_nc_files
\* Files merged as one batch.
BatchSize == 500

Stations == 1..MaxStation

\* The observation of station s in the raw file of slot t (fixed once published).
Obs(s, t) == (s + t) % 3

\* A dataset is its entries <<station, time, value>>, each with the number of
\* times its index label occurs. The dataset of raw file i holds slot i.
RawDataset(i) == [e \in {<<s, i, Obs(s, i)>> : s \in Stations} |-> 1]

EmptyDataset == [e \in {} |-> 1]

\* The dataset of the raw files (slots) in T.
DatasetOf(T) == [e \in {<<s, t, Obs(s, t)>> : s \in Stations, t \in T} |-> 1]

Keys(ds) == {<<e[1], e[2]>> : e \in DOMAIN ds}

\* A call's outcome: a dataset, or the exception raised.
Returned(ds) == [raised |-> "", ds |-> ds]
Raised(e) == [raised |-> e, ds |-> EmptyDataset]

\* The store file: absent, being written, or holding a dataset.
Absent == [state |-> "absent", ds |-> EmptyDataset]
Partial == [state |-> "partial", ds |-> EmptyDataset]
StoreFile(ds) == [state |-> "file", ds |-> ds]

\* Combining that appends along the index instead of joining on it.
xr_concat(objs) ==
    LET all == UNION {DOMAIN objs[k] : k \in DOMAIN objs}
        Count(e, k) == IF e \in DOMAIN objs[k] THEN objs[k][e] ELSE 0
        RECURSIVE Sum(_, _)
        Sum(e, k) == IF k = 0 THEN 0 ELSE Count(e, k) + Sum(e, k - 1)
    IN  Returned([e \in all |-> Sum(e, Len(objs))])

\* xr.merge(objs): outer join on the index; values of one key must agree.
xr_merge(objs) ==
    LET all == UNION {DOMAIN objs[k] : k \in DOMAIN objs}
    IN  IF Cardinality({<<e[1], e[2]>> : e \in all}) # Cardinality(all)
        THEN Raised("MergeError")
        ELSE Returned([e \in all |-> 1])

\* Opening an unreadable file yields an empty dataset instead of raising.
OpenDatasetLenient(i) ==
    IF i \in unreadable THEN Returned(EmptyDataset) ELSE Returned(RawDataset(i))

\* xr.open_dataset(file) and the deep copy: the dataset, or the read fails.
OpenDataset(i) ==
    IF i \in unreadable THEN Raised("OSError") ELSE Returned(RawDataset(i))

\* Reading the store file on disk.
OpenStore ==
    IF store.state = "partial" THEN Raised("OSError") ELSE Returned(store.ds)

\* (ii + 1) % 500 == 0
BatchDue(index) == (index + 1) % BatchSize = 0

\* The remainder is left out of the combination.
CombineDownloadedNoRest(batches, rest) ==
    LET b == xr_merge(batches)
    IN  IF b.raised # "" THEN b ELSE xr_merge(<<b.ds>>)

\* merged_batch_merging and merged_downloaded_files
CombineDownloaded(batches, rest) ==
    LET b == xr_merge(batches)
    IN  IF b.raised # "" THEN b ELSE xr_merge(<<b.ds, rest>>)

\* merge_data_sets: with the store on disk when there is one.
CombineWithStore(downloaded) ==
    IF store.state # "absent"
    THEN LET local == OpenStore
         IN  IF local.raised # "" THEN local ELSE xr_merge(<<downloaded, local.ds>>)
    ELSE xr_merge(<<downloaded>>)

\* files = sorted(glob), the empty lists.
MergeStart ==
    /\ m_pc \in {"idle", "done", "raised", "terminated"}
    /\ runs < MaxRuns
    /\ runs' = runs + 1
    /\ store_before' = store
    /\ ii' = 0
    /\ data_sets' = <<>>
    /\ merged_batch' = <<>>
    /\ data_set_merging' = EmptyDataset
    /\ merged_downloaded_files' = EmptyDataset
    /\ merge_data_sets' = EmptyDataset
    /\ m_pc' = "loop"
    /\ UNCHANGED <<n_raw, unreadable, store>>
    /\ UNCHANGED <<dlVars, qVars>>

\* One turn of the loop: open file ii, append it, merge a full batch.
ReadFile ==
    /\ m_pc = "loop"
    /\ ii < n_raw
    /\ LET opened == OpenDataset(ii + 1) IN
       IF opened.raised # ""
       THEN /\ m_pc' = "raised"
            /\ UNCHANGED <<ii, data_sets, merged_batch>>
       ELSE LET appended == Append(data_sets, opened.ds) IN
            IF BatchDue(ii)
            THEN LET batch == xr_merge(appended) IN
                 IF batch.raised # ""
                 THEN /\ m_pc' = "raised"
                      /\ UNCHANGED <<ii, data_sets, merged_batch>>
                 ELSE /\ merged_batch' = Append(merged_batch, batch.ds)
                      /\ data_sets' = <<>>
                      /\ ii' = ii + 1
                      /\ UNCHANGED m_pc
            ELSE /\ data_sets' = appended
                 /\ ii' = ii + 1
                 /\ UNCHANGED <<m_pc, merged_batch>>
    /\ UNCHANGED <<n_raw, unreadable, store, data_set_merging,
                   merged_downloaded_files, merge_data_sets, store_before, runs>>
    /\ UNCHANGED <<dlVars, qVars>>

\* After the loop: merge the rest and the batches, combine with the store on
\* disk if there is one, and open the store file for writing.
Combine ==
    /\ m_pc = "loop"
    /\ ii = n_raw
    /\ LET rest == xr_merge(data_sets)
           downloaded == IF rest.raised # "" THEN rest
                         ELSE CombineDownloaded(merged_batch, rest.ds)
           combined == IF downloaded.raised # "" THEN downloaded
                       ELSE CombineWithStore(downloaded.ds)
       IN  IF combined.raised # ""
           THEN /\ m_pc' = "raised"
                /\ UNCHANGED <<store, data_set_merging, merged_downloaded_files,
                               merge_data_sets>>
           ELSE /\ data_set_merging' = rest.ds
                /\ merged_downloaded_files' = downloaded.ds
                /\ merge_data_sets' = combined.ds
                /\ store' = Partial
                /\ m_pc' = "write"
    /\ UNCHANGED <<n_raw, unreadable, ii, data_sets, merged_batch, store_before, runs>>
    /\ UNCHANGED <<dlVars, qVars>>

\* to_netcdf writes the dataset and closes the file.
WriteStore ==
    /\ m_pc = "write"
    /\ store' = StoreFile(merge_data_sets)
    /\ m_pc' = "done"
    /\ UNCHANGED <<n_raw, unreadable, ii, data_sets, merged_batch, data_set_merging,
                   merged_downloaded_files, merge_data_sets, store_before, runs>>
    /\ UNCHANGED <<dlVars, qVars>>

\* The process is killed inside a merge pass.
MergeTerminate ==
    /\ m_pc \in {"loop", "write"}
    /\ m_pc' = "terminated"
    /\ UNCHANGED <<n_raw, unreadable, store, ii, data_sets, merged_batch,
                   data_set_merging, merged_downloaded_files, merge_data_sets,
                   store_before, runs>>
    /\ UNCHANGED <<dlVars, qVars>>

\* ------------------------------------------------------------------ KNMIApp
\* A variable of the dataset: its name and whether it carries the attributes
\* units and long_name.
Var(name, units, long_name) == [name |-> name, units |-> units, long_name |-> long_name]

\* load_data returned None.
NoDataset == [loaded |-> FALSE, vars |-> <<>>, stations |-> {}, times |-> {}]

\* Datasets a store file may hold: coordinates without units, observation
\* variables with both attributes, and one whose variable lacks long_name.
Datasets ==
    { [loaded |-> TRUE,
       vars |-> <<Var("time", FALSE, TRUE), Var("ta", TRUE, TRUE), Var("rh", TRUE, TRUE)>>,
       stations |-> {"06391"}, times |-> 1..MaxStamp],
      [loaded |-> TRUE,
       vars |-> <<Var("stationname", FALSE, TRUE), Var("ta", TRUE, TRUE)>>,
       stations |-> {"06391", "06260"}, times |-> 1..MaxStamp],
      [loaded |-> TRUE,
       vars |-> <<Var("ta", TRUE, TRUE), Var("zz", TRUE, FALSE)>>,
       stations |-> {"06391"}, times |-> 1..MaxStamp] }

VarNames(ds) == {ds.vars[k].name : k \in DOMAIN ds.vars}

\* An attribute of the object: not assigned yet, or its value.
Unset == [set |-> FALSE, value |-> <<>>]
Assigned(v) == [set |-> TRUE, value |-> v]

\* What the loop of get_variables_info collects: KeyError at the first variable
\* with units and no long_name, else the names with both.
CollectVariables(ds) ==
    IF \E k \in DOMAIN ds.vars : ds.vars[k].units /\ ~ds.vars[k].long_name
    THEN [raised |-> "KeyError", names |-> <<>>]
    ELSE LET Both(v) == v.units /\ v.long_name
             kept == SelectSeq(ds.vars, Both)
         IN  [raised |-> "", names |-> [k \in DOMAIN kept |-> kept[k].name]]

\* The last call: the method, the station asked for, what it returned or raised.
Outcome(op, station, outcome, columns, rows) ==
    [op |-> op, station |-> station, outcome |-> outcome, columns |-> columns,
     rows |-> rows]

get_station_codes ==
    /\ IF ~app_ds.loaded
       THEN /\ q_result' = Outcome("get_station_codes", "", "AttributeError", <<>>, {})
            /\ UNCHANGED station_info
       ELSE /\ station_info' = Assigned(app_ds.stations)
            /\ q_result' = Outcome("get_station_codes", "", "table", <<>>, {})
    /\ UNCHANGED <<app_ds, variable_info>>
    /\ UNCHANGED <<dlVars, mgVars>>

get_variables_info ==
    /\ IF ~app_ds.loaded
       THEN /\ q_result' = Outcome("get_variables_info", "", "AssertionError", <<>>, {})
            /\ UNCHANGED variable_info
       ELSE LET info == CollectVariables(app_ds) IN
            IF info.raised # ""
            THEN /\ q_result' = Outcome("get_variables_info", "", info.raised, <<>>, {})
                 /\ UNCHANGED variable_info
            ELSE /\ variable_info' = Assigned(info.names)
                 /\ q_result' = Outcome("get_variables_info", "", "table", info.names, {})
    /\ UNCHANGED <<app_ds, station_info>>
    /\ UNCHANGED <<dlVars, mgVars>>

get_time_range_dataset ==
    /\ IF ~app_ds.loaded
       THEN q_result' = Outcome("get_time_range_dataset", "", "AttributeError", <<>>, {})
       ELSE q_result' = Outcome("get_time_range_dataset", "", "range", <<>>,
                                {t \in app_ds.times :
                                    \/ \A u \in app_ds.times : t <= u
                                    \/ \A u \in app_ds.times : t >= u})
    /\ UNCHANGED <<app_ds, variable_info, station_info>>
    /\ UNCHANGED <<dlVars, mgVars>>

\* start=None, end=None
NoTime == 0

\* The rows of the selection: the slice when both ends are given.
Rows(ds, start, end) ==
    IF start # NoTime /\ end # NoTime
    THEN {t \in ds.times : start <= t /\ t <= end}
    ELSE ds.times

\* variable = self.variable_info.variable.to_list() when variable == 'all'
ExpandAll(variable) ==
    IF variable = "all"
    THEN IF variable_info.set
         THEN [raised |-> "", names |-> variable_info.value]
         ELSE [raised |-> "AttributeError", names |-> <<>>]
    ELSE [raised |-> "", names |-> <<variable>>]

\* get_data with matplotlib importable (mpl) or not.
get_data(variable, station, start, end, plot, mpl) ==
    LET op == IF variable = "all" THEN "get_data_all" ELSE "get_data"
        Raise(e) == /\ q_result' = Outcome(op, station, e, <<>>, {})
                    /\ UNCHANGED variable_info
        expanded == ExpandAll(variable)
        selected == expanded.names
        plot2 == IF variable = "all" /\ Len(selected) >= 2 /\ plot THEN FALSE ELSE plot
    IN
    /\ IF expanded.raised # ""
       THEN Raise(expanded.raised)
       ELSE IF ~app_ds.loaded
       THEN Raise("AttributeError")
       ELSE IF station \notin app_ds.stations
       THEN Raise("KeyError")
       ELSE IF \E k \in DOMAIN selected : selected[k] \notin VarNames(app_ds)
       THEN Raise("KeyError")
       ELSE LET table == Outcome(op, station, "table", selected, Rows(app_ds, start, end)) IN
            IF ~plot2 \/ ~mpl
            THEN /\ q_result' = table
                 /\ UNCHANGED variable_info
            ELSE LET info == CollectVariables(app_ds) IN
                 IF info.raised # ""
                 THEN Raise(info.raised)
                 ELSE /\ variable_info' = Assigned(info.names)
                      /\ IF \A k \in DOMAIN selected :
                               \E j \in DOMAIN info.names : info.names[j] = selected[k]
                         THEN q_result' = table
                         ELSE q_result' = Outcome(op, station, "ValueError", <<>>, {})
    /\ UNCHANGED <<app_ds, station_info>>
    /\ UNCHANGED <<dlVars, mgVars>>

\* ------------------------------------------------------------ specifications
Published(p) == {RemoteName(k) : k \in 1..p}

\* No call of download_files has begun.
DownloadIdle ==
    /\ pc = "idle"
    /\ files_list = <<>>
    /\ maximum_quota = 0
    /\ max_number_files = 0
    /\ file_number = 0
    /\ max_date = <<>>
    /\ result = "none"
    /\ prev_max_date = <<>>
    /\ folder_at_start = DOMAIN raw
    /\ requested = <<>>
    /\ written = {}
    /\ skipped = {}
    /\ quota_hit = <<>>

\* No call of merge_nc_files has begun.
MergeIdle ==
    /\ m_pc = "idle"
    /\ ii = 0
    /\ data_sets = <<>>
    /\ merged_batch = <<>>
    /\ data_set_merging = EmptyDataset
    /\ merged_downloaded_files = EmptyDataset
    /\ merge_data_sets = EmptyDataset
    /\ store_before = store
    /\ runs = 0

\* A KNMIApp right after __init__.
AppFresh ==
    /\ variable_info = Unset
    /\ station_info = Unset
    /\ q_result = Outcome("__init__", "", "none", <<>>, {})

NoMerge == n_raw = 0 /\ unreadable = {} /\ store = Absent /\ MergeIdle

NoApp == app_ds = NoDataset /\ AppFresh

\* The downloads folder holds (complete) files fetched from the server earlier.
Init ==
    /\ \E p \in 0..MaxTime : server = Published(p)
    /\ \E seed \in SUBSET server :
          /\ Cardinality(seed) <= MaxSeed
          /\ raw = [n \in seed |-> "full"]
    /\ DownloadIdle
    /\ NoMerge
    /\ NoApp

\* The downloads folder was filled by hand: any "*.nc" names.
InitSeeded ==
    /\ \E p \in 0..MaxTime : server = Published(p)
    /\ \E seed \in SUBSET (RemoteNames \cup OtherNames) :
          /\ Cardinality(seed) <= MaxSeed
          /\ raw = [n \in seed |-> "full"]
    /\ DownloadIdle
    /\ NoMerge
    /\ NoApp

\* The raw file counts: around each multiple of the batch size.
RawCounts ==
    {c \in {b * BatchSize + r : b \in 0..MaxBatches, r \in (0 - 1)..MaxRemainder} :
        c >= 0}

\* A downloads folder of n files, at most one unreadable; the store is absent
\* or was written by an earlier pass (over slot 0, no longer in the folder,
\* and the first files of the folder).
InitMerge ==
    /\ n_raw \in RawCounts
    /\ unreadable \in {{}} \cup {{i} : i \in {1, BatchSize, n_raw} \cap 1..n_raw}
    /\ store \in {Absent, StoreFile(DatasetOf({0})), StoreFile(DatasetOf(0..Min(n_raw, 1)))}
    /\ MergeIdle
    /\ server = {}
    /\ raw = <<>>
    /\ DownloadIdle
    /\ NoApp

\* A KNMIApp over a store file, freshly constructed.
InitQuery ==
    /\ app_ds \in Datasets \cup {NoDataset}
    /\ AppFresh
    /\ server = {}
    /\ raw = <<>>
    /\ DownloadIdle
    /\ NoMerge

\* Both folders as the pipeline left them: raw files fetched earlier, and a
\* store that is absent or was written by an earlier pass.
InitCrash ==
    /\ \E p \in 0..MaxTime : server = Published(p)
    /\ \E seed \in SUBSET server :
          /\ Cardinality(seed) <= MaxSeed
          /\ raw = [n \in seed |-> "full"]
    /\ DownloadIdle
    /\ n_raw = 1
    /\ unreadable = {}
    /\ store \in {Absent, StoreFile(DatasetOf({0}))}
    /\ MergeIdle
    /\ NoApp

Next ==
    \/ StartCall
    \/ \E code \in StatusCodes : RequestUrl(code)
    \/ WriteBody
    \/ EndCall
    \/ Publish

NextMerge ==
    \/ MergeStart
    \/ ReadFile
    \/ Combine
    \/ WriteStore

\* The pipeline with kills: the download cycles (update_files.py), then the
\* merge passes (merge_files.py).
NextCrash ==
    \/ (m_pc = "idle" /\ runs = 0) /\ Next
    \/ Terminate
    \/ Restart
    \/ pc = "idle" /\ NextMerge
    \/ MergeTerminate

NextQuery ==
    \/ get_station_codes
    \/ get_variables_info
    \/ get_time_range_dataset
    \/ \E variable \in {"all", "ta", "rh", "stationname", "xx"},
          station \in {"06391", "06260", "00000"},
          start \in {NoTime} \cup 1..MaxStamp, end \in {NoTime} \cup 1..MaxStamp,
          plot \in BOOLEAN, mpl \in BOOLEAN :
            get_data(variable, station, start, end, plot, mpl)

Spec == Init /\ [][Next]_vars

SpecSeeded == InitSeeded /\ [][Next]_vars

SpecCrash == InitCrash /\ [][NextCrash]_vars

SpecMerge == InitMerge /\ [][NextMerge]_vars

SpecQuery == InitQuery /\ [][NextQuery]_vars


\* -------------------------------------------------------------------- claims
Range(seq) == {seq[k] : k \in DOMAIN seq}

\* C1: one call issues at most min(N, Q) download-URL requests, and so writes
\* at most min(N, Q) raw files, whatever the status codes.
C1_QuotaBound ==
    LET cap == Min(Len(files_list), maximum_quota)
    IN  /\ Len(requested) <= cap
        /\ Cardinality(written) <= cap
        /\ Cardinality(DOMAIN raw \ folder_at_start) <= cap

\* A call that ended with more files listed than the quota, the quota used up,
\* and a failed request among them.
C1_Witness ==
    /\ pc = "idle" /\ result = "returned"
    /\ 0 < maximum_quota /\ maximum_quota < Len(files_list)
    /\ Len(requested) = maximum_quota
    /\ skipped # {}
    /\ written # {}

\* The listing the next cycle would get for the folder as it is now.
NextListing ==
    ListFiles(StartAfterFilename(filename_to_date(LastFile(DOMAIN raw))))

\* C2: a file whose request failed with a status other than 200 and 403 is,
\* when the call has returned, still listed after the cursor of the next cycle
\* (so that it is requested again) unless it is in the raw folder.
C2_SkippedRetried ==
    (pc = "idle" /\ result = "returned") =>
        \A n \in skipped : n \in DOMAIN raw \/ n \in Range(NextListing)

\* C4: the cursor of a call is the maximum of the timestamps in the trailing 12
\* characters of all raw filenames of the folder.
C4_CursorIsMax ==
    pc # "idle" =>
        /\ \A n \in GlobNc(folder_at_start) :
              DateLeq(filename_to_date(Stem(n)), max_date)
        /\ \E n \in GlobNc(folder_at_start) : filename_to_date(Stem(n)) = max_date

\* C5: no download-URL request is issued for a filename already in the raw
\* folder, and the cursor of a call is not below that of the call before.
C5_NoRerequest ==
    /\ \A k \in DOMAIN requested : requested[k] \notin folder_at_start
    /\ (prev_max_date # <<>> /\ max_date # <<>>) => DateLeq(prev_max_date, max_date)

\* C6: once a request was answered 403 it is the last request of the call, no
\* file is written for it, the files written earlier in the call are in the
\* folder, complete, and the call returns normally.
C6_QuotaStop ==
    quota_hit # <<>> =>
        /\ requested[Len(requested)] = quota_hit
        /\ quota_hit \notin written
        /\ quota_hit \notin (DOMAIN raw \ folder_at_start)
        /\ \A n \in written : n \in DOMAIN raw /\ raw[n] = "full"
        /\ pc \in {"break", "idle"}
        /\ pc = "idle" => result = "returned"

\* A call that wrote a file, was then answered 403 with more files left within
\* the quota, and returned.
C6_Witness ==
    /\ quota_hit # <<>>
    /\ written # {}
    /\ Len(requested) < max_number_files
    /\ pc = "idle" /\ result = "returned"

\* C7: when the process is killed inside a download or merge step, every file
\* of the raw folder is complete and the store file is the previous store or
\* the combined new one.
C7_CrashConsistent ==
    /\ pc = "terminated" => \A n \in DOMAIN raw : raw[n] = "full"
    /\ m_pc = "terminated" => store \in {store_before, StoreFile(merge_data_sets)}

\* The merge groups of a finished pass: the full batches and the rest.
MergeGroups == Append(merged_batch, data_set_merging)

C8_FailClosed ==
    (m_pc = "raised" \/ (unreadable # {} /\ runs > 0)) =>
        /\ store = store_before
        /\ m_pc \in {"loop", "raised"}

\* A pass that raised at the last file, after a full batch was merged, with a
\* store on disk.
C8_Witness ==
    /\ m_pc = "raised"
    /\ unreadable = {n_raw}
    /\ n_raw > BatchSize
    /\ Len(merged_batch) > 0
    /\ store.state = "file"

NoDuplicateKeys(ds) ==
    /\ \A e \in DOMAIN ds : ds[e] = 1
    /\ Cardinality(Keys(ds)) = Cardinality(DOMAIN ds)

\* C9: a second pass over the same raw files, with the store of the first pass
\* on disk, writes a store with the same keys and values, without duplicates.
C9_Idempotent ==
    (m_pc = "done" /\ runs >= 2) =>
        /\ store = store_before
        /\ NoDuplicateKeys(store.ds)

\* A second finished pass over more than one batch of files.
C9_Witness ==
    /\ m_pc = "done"
    /\ runs = 2
    /\ n_raw > BatchSize
    /\ store_before.state = "file"

\* C10: on an app whose dataset loaded (and has a variable catalog), get_data
\* with variable 'all' and a station of the dataset returns a table of every
\* variable of the catalog, in every state of the object.
C10_AllReturnsTable ==
    (/\ q_result.op = "get_data_all"
     /\ app_ds.loaded
     /\ CollectVariables(app_ds).raised = ""
     /\ q_result.station \in app_ds.stations) =>
        /\ q_result.outcome = "table"
        /\ q_result.columns = CollectVariables(app_ds).names

====
